---- MODULE Spec2Model ----
(***************************************************************************)
(* A model of lib/acme.js, an ACME (RFC 8555) client engine.               *)
(*                                                                         *)
(* One client instance `me` (ACME.create) with its nonce cache, the        *)
(* directory loader me.init, the JWS request layer (_getNonce, _setNonce,  *)
(* _jwsRequest, _request), accounts.create (_registerAccount) and          *)
(* certificates.create (_getCertificate with its option checks, the        *)
(* register-and-recurse step, the dry-run self-test _testChallenges and    *)
(* the newOrder step).                                                     *)
(*                                                                         *)
(* JavaScript runs one callback at a time: every action below is one       *)
(* callback (a synchronous run of code between two asynchronous            *)
(* completions).  The transport me.request, the resolver me.dig, the       *)
(* signer Keypairs.signJws and the caller's callbacks are the environment: *)
(* their results are chosen with \E.  The transport and the resolver       *)
(* always answer with a response (they do not reject).                     *)
(***************************************************************************)
EXTENDS Naturals, Sequences, FiniteSets, TLC

\* ------------------------------------------------------------------ bounds

\* Number of API calls (accounts.create / certificates.create / ...) that one
\* behaviour starts on the client instance; they may be in flight together.
MaxCalls == 2
\* The server issues the Replay-Nonce values 1..MaxNonce, each at most once.
MaxNonce == 3
\* Operations of one behaviour, over all calls: the API calls themselves
\* and the operations they start on the outside (HTTP requests, TXT queries,
\* calls of the caller's callbacks).  me.init is not counted.
MaxOps == 7
\* The clock is seen to have advanced up to MaxTicks times, each time by
\* TickStep or a millisecond less.
MaxTicks == 2
\* newAccount requests one call may send (the register-and-recurse loop).
MaxReg == 2
\* Certificates in the PEM chain of a certificate response.
MaxBlocks == 2
\* Line breaks (LF or CRLF) in the run between two certificates of a chain.
MaxSep == 2
\* Entries of options.challengeTypes in a call of the chooser.
MaxTypes == 2
\* Challenges offered for one authorization.
MaxOffered == 2

\* ------------------------------------------------------- program constants

\* me.retryPoll || 8, the most polls of one challenge (_postChallenge).
MAX_POLL == 8

\* 15 * 60 * 1000 ms, the lifetime of a cached nonce (_getNonce).
NonceTTL == 900000

\* One step of the clock: a millisecond more than the lifetime of a nonce.
TickStep == NonceTTL + 1

Calls == 1..MaxCalls

NoType == "none"
NoKid == "none"
\* `kid: false` in a protected header (explicitly no key id)
KidFalse == "false"
NoJwk == "none"
PubJwk == "pair.public"

\* URLs of the directory, and the account URL the server assigns
NewNonceUrl == "newNonce"
NewAccountUrl == "newAccount"
NewOrderUrl == "newOrder"
DirectoryUrl == "directory"
AuthzUrl == "authz/1"
\* the URL of a challenge (auth.url) and options._finalize
ChallengeUrl == "chall/1"
FinalizeUrl == "finalize/1"
AcctUrl == "acct/1"
\* an account URL a caller may already hold (options.accountKid)
CallerKid == "acct/0"
TosUrl == "tos/1"
OtherTosUrl == "tos/2"

\* ---------------------------------------------------------------- state

VARIABLES
  clock,        \* Date.now(), in ms
  nonces,       \* me._nonces: sequence of [nonce, createdAt], most recent first
  dir,          \* me._directoryUrls / me._tos, and the state of me.init
  skipTest,     \* me.skipChallengeTest
  calls,        \* the API calls: options, position and result of each, and
                \* log, the transcript of the operations it started
  nextNonce,    \* server: the next Replay-Nonce value it will issue
  heads,        \* number of HEAD newNonce requests issued
  received,     \* history: Replay-Nonce values received, with the request kind
  pushed,       \* history: nonce values _setNonce has put on the cache
  lastHarvest,  \* history: the cache entry of the latest harvest not yet followed
                \* by a nonce acquisition, or NoEntry
  sequential,   \* history: the session so far was sequential, every signed
                \* response carried a Replay-Nonce and no cached nonce expired
  pem,          \* the body of a certificate response and the certsarr made of it
  chosen        \* the arguments of a call of ACME._chooseChallenge, its result
                \* and what the self-test does with the same challengeTypes

vars == <<clock, nonces, dir, skipTest, calls, nextNonce, heads,
          received, pushed, lastHarvest, sequential, pem, chosen>>

NoEntry == [nonce |-> 0, createdAt |-> 0]

\* The value _getNonce resolves to: the shifted cache entry itself (an object
\* { nonce, createdAt }) or the string of the Replay-Nonce header of the HEAD.
\* age (history): the age of the entry when it was shifted off the cache.
NoNonce == [isEntry |-> FALSE, nonce |-> 0, createdAt |-> 0, age |-> 0]
FromCache(e, now) ==
  [isEntry |-> TRUE, nonce |-> e.nonce, createdAt |-> e.createdAt,
   age |-> now - e.createdAt]
FromHeader(n) == [isEntry |-> FALSE, nonce |-> n, createdAt |-> 0, age |-> 0]

\* ------------------------------------------------------------ nonce cache

\* (mutant) no entry is ever too old
ExpiredNever(e, now) == FALSE

\* _getNonce's test of a shifted entry: Date.now() - createdAt > 15 min
Expired(e, now) == now - e.createdAt > NonceTTL

\* _getNonce's while loop: shift entries off the front until one is not
\* expired or the cache is empty.  nonce = NoEntry when none is left (the
\* caller then issues HEAD newNonce); dropped = an expired entry was discarded.
RECURSIVE ShiftLoop(_, _, _)
ShiftLoop(q, now, dropped) ==
  IF q = <<>> THEN [nonce |-> NoEntry, rest |-> <<>>, dropped |-> dropped]
  ELSE IF Expired(Head(q), now) THEN ShiftLoop(Tail(q), now, TRUE)
  ELSE [nonce |-> Head(q), rest |-> Tail(q), dropped |-> dropped]

\* (mutant) the cache is thrown away and a HEAD is always needed
getNonceUncached(q, now) == [nonce |-> NoEntry, rest |-> <<>>, dropped |-> FALSE]

\* (mutant) the front entry is read but left in the cache
getNoncePeek(q, now) ==
  [ShiftLoop(q, now, FALSE) EXCEPT !.rest = q]

getNonce(q, now) == ShiftLoop(q, now, FALSE)

\* _setNonce: me._nonces.unshift({ nonce, createdAt: Date.now() })
setNonce(q, n, now) == <<[nonce |-> n, createdAt |-> now]>> \o q

\* ------------------------------------------------------------ API calls

\* options as the caller passes them.  The account key is of type kty ("RSA"
\* or "EC") and is passed as accountKeypair.privateKeyJwk (keyForm "jwk") or
\* as accountKeypair.privateKeyPem (keyForm "pem").
NoArg ==
  [domains |-> <<>>, challengeTypes |-> <<>>, challenges |-> <<>>,
   challengeType |-> NoType, accountKid |-> NoKid, agreeArity |-> 1,
   setArity |-> 1, kty |-> "RSA", keyForm |-> "jwk"]

NoReq == [url |-> "", kid |-> NoKid, jwk |-> NoJwk]

\* agreed (history): the URL options.agreeToTerms last delivered
\* status (history): "2xx" or "non-2xx", the status of the last response to
\* a signed request of the call
\* jwkKty: the kty of options.accountKeypair.privateKeyJwk ("" while there is
\* no privateKeyJwk); alg: options._alg ("" while it is not set)
Idle ==
  [kind |-> "none", pc |-> "idle", arg |-> NoArg, challengeTypes |-> <<>>,
   kid |-> NoKid, req |-> NoReq, held |-> NoNonce, expect |-> 0, err |-> "",
   dry |-> <<>>, log |-> <<>>, agreed |-> "", jwkKty |-> "", alg |-> "",
   status |-> ""]

\* options.accountKeypair.privateKeyJwk as the caller passes it
callerJwkKty(a) == IF a.keyForm = "jwk" THEN a.kty ELSE ""

\* a call is inside _jwsRequest: between _getNonce and the response
InJws(k) == k.pc \in {"head", "sign", "post"}

Settled(k) == k.pc \in {"resolved", "rejected"}

Reject(k, code) == [k EXCEPT !.pc = "rejected", !.err = code]

\* no certificate response has been received
NoPem == [blocks |-> <<>>, body |-> <<>>, done |-> FALSE, certsarr |-> <<>>]

\* ACME._chooseChallenge has not been called
NoChoice ==
  [types |-> <<>>, offered |-> <<>>, done |-> FALSE,
   challenge |-> [type |-> NoType, wildcard |-> FALSE, url |-> ""],
   dry |-> <<>>]

Init ==
  /\ clock = 0
  /\ nonces = <<>>
  /\ dir = [pc |-> "none", loaded |-> FALSE, tos |-> ""]
  /\ skipTest \in BOOLEAN
  /\ calls = [c \in Calls |-> Idle]
  /\ nextNonce = 1
  /\ heads = 0
  /\ received = {}
  /\ pushed = {}
  /\ lastHarvest = NoEntry
  /\ sequential = TRUE
  /\ pem = NoPem
  /\ chosen = NoChoice

\* The program reads the clock (Date.now()) in two places only: _getNonce
\* ages the cached entries and _setNonce stamps a new one.  The time that has
\* passed since the clock was last read is chosen there: none, exactly the
\* 15 minutes, or a millisecond more.
Elapsed == {0, NonceTTL, TickStep}
Now(elapsed) == clock + elapsed
CanElapse(elapsed) == Now(elapsed) <= MaxTicks * TickStep

\* log entries.  op: "http" (a request handed to me.request), "dig" (a TXT
\* query), "agreeToTerms", "setChallenge", "removeChallenge" (a call of the
\* caller's callback).
\* a plain (unsigned) request handed to me.request:
Plain(method, url) ==
  [op |-> "http", method |-> method, url |-> url, signed |-> FALSE,
   nonce |-> NoNonce, kid |-> NoKid, jwk |-> NoJwk, expect |-> 0]

\* a TXT query, or a call of one of the caller's callbacks
Outside(op, about) ==
  [op |-> op, method |-> "", url |-> about, signed |-> FALSE,
   nonce |-> NoNonce, kid |-> NoKid, jwk |-> NoJwk, expect |-> 0]

Logged(k, entries) == [k EXCEPT !.log = @ \o entries]

RECURSIVE LogTotal(_)
LogTotal(n) ==
  IF n = 0 THEN 0
  ELSE (IF calls[n].kind = "none" THEN 0 ELSE 1 + Len(calls[n].log))
       + LogTotal(n - 1)

\* operations started so far, and whether n more fit the bound
OpsUsed == LogTotal(MaxCalls)
Room(n) == OpsUsed + n <= MaxOps

SignedRequests(k) == SelectSeq(k.log, LAMBDA e : e.signed)
Requests(k) == SelectSeq(k.log, LAMBDA e : e.op = "http")
Callbacks(k) ==
  SelectSeq(k.log, LAMBDA e : e.op \in {"agreeToTerms", "setChallenge"})
\* the newAccount requests a call has sent
Registrations(k) == SelectSeq(k.log, LAMBDA e : e.url = NewAccountUrl)

\* ------------------------------------------------------------ me.init

\* me.init(opts): an object with opts.meta and opts.termsOfService is used
\* as the directory; otherwise opts must be the directory URL string, which
\* is fetched with a plain GET (ACME._directory).
\* shape: "url" | "directory" (the object { newNonce, newAccount, newOrder,
\* meta: { termsOfService } }) | "directoryTos" (the same object with an
\* additional top-level termsOfService).
InitShapes == {"url", "directory", "directoryTos"}

initTakesObject(shape) == shape = "directoryTos"

InitCall(shape) ==
  /\ dir.pc = "none"
  /\ IF initTakesObject(shape)
       THEN dir' = [dir EXCEPT !.pc = "done", !.loaded = TRUE, !.tos = TosUrl]
     ELSE IF shape = "url"
       THEN dir' = [dir EXCEPT !.pc = "get"]
     ELSE dir' = [dir EXCEPT !.pc = "threw"]
  /\ UNCHANGED <<chosen, pem, clock, nonces, skipTest, calls, nextNonce, heads, received,
                 pushed, lastHarvest, sequential>>

\* the response to the directory GET arrives: fin(resp.body).  The request
\* went through me.request, not ACME._request.
DirectoryResponse(hasNonce) ==
  /\ dir.pc = "get"
  /\ hasNonce => nextNonce <= MaxNonce
  /\ dir' = [dir EXCEPT !.pc = "done", !.loaded = TRUE, !.tos = TosUrl]
  /\ nextNonce' = IF hasNonce THEN nextNonce + 1 ELSE nextNonce
  /\ received' = IF hasNonce
                   THEN received \cup {[nonce |-> nextNonce, method |-> "GET",
                                        url |-> DirectoryUrl, signed |-> FALSE]}
                   ELSE received
  /\ UNCHANGED <<chosen, pem, clock, nonces, skipTest, calls, heads, pushed,
                 lastHarvest, sequential>>

\* ------------------------------------------------------ JWS request layer

\* ACME._jwsRequest(me, bigopts), first half: ACME._getNonce(me).  The loop
\* over me._nonces runs to its end in this one callback; with no cached nonce
\* left the HEAD newNonce request is handed to me.request.
\* (_jwsRequest reads me._nonces: see jwsRequestThrows for the calls that pass
\* bigopts where `me` is expected.)
GetNonce(c, elapsed) ==
  LET k == calls[c]
      g == getNonce(nonces, Now(elapsed))
      want == IF lastHarvest # NoEntry /\ ~Expired(lastHarvest, Now(elapsed))
                THEN lastHarvest.nonce ELSE 0
  IN
  /\ k.pc = "jws"
  /\ CanElapse(elapsed)
  /\ elapsed # 0 => nonces # <<>>
  /\ clock' = Now(elapsed)
  /\ nonces' = g.rest
  /\ lastHarvest' = NoEntry
  /\ sequential' = (sequential /\ ~g.dropped
                    /\ \A d \in Calls \ {c} : ~InJws(calls[d]))
  /\ IF g.nonce # NoEntry
       THEN /\ calls' = [calls EXCEPT ![c] =
                 [k EXCEPT !.pc = "sign",
                           !.held = FromCache(g.nonce, Now(elapsed)),
                           !.expect = want]]
            /\ UNCHANGED heads
       ELSE /\ Room(1)
            /\ calls' = [calls EXCEPT ![c] =
                 Logged([k EXCEPT !.pc = "head", !.expect = want],
                        <<Plain("HEAD", NewNonceUrl)>>)]
            /\ heads' = heads + 1
  /\ UNCHANGED <<chosen, pem, dir, skipTest, nextNonce, received, pushed>>

\* the HEAD newNonce response: _getNonce resolves to its replay-nonce header.
\* The HEAD went through me.request: its nonce is not put on the cache.
HeadResponse(c) ==
  LET k == calls[c] IN
  /\ k.pc = "head"
  /\ nextNonce <= MaxNonce
  /\ calls' = [calls EXCEPT ![c] =
       [k EXCEPT !.pc = "sign", !.held = FromHeader(nextNonce)]]
  /\ nextNonce' = nextNonce + 1
  /\ received' = received \cup {[nonce |-> nextNonce, method |-> "HEAD",
                                 url |-> NewNonceUrl, signed |-> FALSE]}
  /\ UNCHANGED <<chosen, pem, clock, nonces, dir, skipTest, heads, pushed,
                 lastHarvest, sequential>>

\* The protected header _jwsRequest hands to the signer: the caller's
\* `protected` with nonce and url added.
protectedHeader(k) ==
  [op |-> "http", method |-> "POST", url |-> k.req.url, signed |-> TRUE,
   nonce |-> k.held, kid |-> k.req.kid, jwk |-> k.req.jwk,
   expect |-> k.expect]

\* me.Keypairs.signJws is supplied by the caller.  A signer may complete a
\* header that names no key at all with the public key of the signing key
\* (fills); it leaves any other header as it is.
signJws(header, fills) ==
  IF fills /\ header.kid = NoKid /\ header.jwk = NoJwk
  THEN [header EXCEPT !.jwk = PubJwk]
  ELSE header

\* ACME._jwsRequest, second half: signJws, then ACME._request posts the JWS.
SignAndPost(c, fills) ==
  LET k == calls[c] IN
  /\ k.pc = "sign"
  /\ Room(1)
  /\ fills => (k.req.kid = NoKid /\ k.req.jwk = NoJwk)
  /\ calls' = [calls EXCEPT ![c] =
       Logged([k EXCEPT !.pc = "post", !.held = NoNonce, !.expect = 0],
              <<signJws(protectedHeader(k), fills)>>)]
  /\ UNCHANGED <<chosen, pem, clock, nonces, dir, skipTest, nextNonce, heads, received,
                 pushed, lastHarvest, sequential>>

\* (mutant) the Replay-Nonce of the response is ignored
harvestNever(q, hasNonce, n, now) == q

\* ACME._request's handler of a response: a replay-nonce header is handed to
\* _setNonce.
harvest(q, hasNonce, n, now) == IF hasNonce THEN setNonce(q, n, now) ELSE q

\* ACME._registerAccount's handler of the newAccount response (in `k`, the
\* call after the response was taken): a non-2xx status throws; otherwise
\* options._kid = resp.headers.location.  For certificates.create the next
\* callback starts _getCertificate again from the top.
registerResponse(k, ok) ==
  IF ~ok THEN Reject(k, "account error")
  ELSE IF k.kind = "accounts"
    THEN [k EXCEPT !.pc = "resolved", !.kid = AcctUrl, !.req = NoReq]
    ELSE [k EXCEPT !.pc = "recurse", !.kid = AcctUrl, !.req = NoReq]

\* ACME._getChallenges's handler: resolves with resp.body
getChallengesResponse(k) == [k EXCEPT !.pc = "resolved", !.req = NoReq]

\* the response to a signed POST arrives (ACME._request, then the caller's
\* handler); ok: the status is 2xx; hasNonce: it carries Replay-Nonce.
PostResponse(c, ok, hasNonce, elapsed) ==
  LET k == [calls[c] EXCEPT !.status = IF ok THEN "2xx" ELSE "non-2xx"] IN
  /\ k.pc = "post"
  /\ hasNonce => nextNonce <= MaxNonce
  /\ CanElapse(elapsed)
  /\ elapsed # 0 => hasNonce /\ nonces # <<>>
  /\ clock' = Now(elapsed)
  /\ nonces' = harvest(nonces, hasNonce, nextNonce, Now(elapsed))
  /\ nextNonce' = IF hasNonce THEN nextNonce + 1 ELSE nextNonce
  /\ received' = IF hasNonce
                   THEN received \cup {[nonce |-> nextNonce, method |-> "POST",
                                        url |-> k.req.url, signed |-> TRUE]}
                   ELSE received
  /\ pushed' = pushed \cup {nonces'[i].nonce : i \in 1..Len(nonces')}
  /\ lastHarvest' = IF nonces' # nonces THEN Head(nonces') ELSE lastHarvest
  /\ sequential' = (sequential /\ hasNonce)
  /\ calls' = [calls EXCEPT ![c] =
       IF k.req.url = NewAccountUrl THEN registerResponse(k, ok)
       ELSE getChallengesResponse(k)]
  /\ UNCHANGED <<chosen, pem, dir, skipTest, heads>>

\* ------------------------------------------------------ accounts.create

AgreeArities == {0, 1, 2}

\* (mutant) any URL is taken for agreement
tosAgreedAny(tos, tosUrl) == TRUE

\* the check at the head of agree(tosUrl): me._tos !== tosUrl rejects
tosAgreed(tos, tosUrl) == tos = tosUrl

\* ACME._registerAccount up to the call of options.agreeToTerms(me._tos):
\* a function of one or two parameters is called, any other is rejected.
registerAccount(k) ==
  IF k.arg.agreeArity \in {1, 2}
    THEN Logged([k EXCEPT !.pc = "agree"], <<Outside("agreeToTerms", dir.tos)>>)
    ELSE Reject(k, "agreeToTerms signature")

\* agree(tosUrl), and on agreement the key import (a key passed as PEM is
\* imported and stored as options.accountKeypair.privateKeyJwk), the payload
\* and the call of _jwsRequest(me, { url: newAccount,
\* protected: { kid: false, jwk } })
agree(k, tosUrl) ==
  IF ~tosAgreed(dir.tos, tosUrl) THEN Reject(k, "E_AGREE_TOS")
  ELSE [k EXCEPT !.pc = "jws",
                 !.jwkKty = k.arg.kty,
                 !.req = [url |-> NewAccountUrl, kid |-> KidFalse,
                          jwk |-> PubJwk]]

\* me.accounts.create(options)
AccountsCreate(c, arity) ==
  /\ dir.loaded
  /\ Room(2)
  /\ calls[c].kind = "none"
  /\ \A d \in Calls : d < c => calls[d].kind # "none"
  /\ calls' = [calls EXCEPT ![c] =
       registerAccount([Idle EXCEPT !.kind = "accounts",
                                    !.arg = [NoArg EXCEPT !.agreeArity = arity],
                                    !.jwkKty = callerJwkKty(NoArg)])]
  /\ UNCHANGED <<chosen, pem, clock, nonces, dir, skipTest, nextNonce, heads,
                 received, pushed, lastHarvest, sequential>>

\* options.agreeToTerms delivers its result: an error, or a ToS URL
AgreeReturns(c, failed, tosUrl) ==
  LET k == calls[c] IN
  /\ k.pc = "agree"
  /\ calls' = [calls EXCEPT ![c] =
       IF failed THEN Reject(k, "agreeToTerms error")
       ELSE agree([k EXCEPT !.agreed = tosUrl], tosUrl)]
  /\ UNCHANGED <<chosen, pem, clock, nonces, dir, skipTest, nextNonce, heads,
                 received, pushed, lastHarvest, sequential>>

\* ------------------------------------------------- certificates.create

Http01 == "http-01"
Dns01 == "dns-01"
TlsAlpn01 == "tls-alpn-01"

\* requested identifiers: a host name, possibly with a leading "*."
PlainDomain == [host |-> "a.test", star |-> FALSE]
WildDomain == [host |-> "w.test", star |-> TRUE]

\* The comparator of options.challengeTypes.sort(...): options.challengeType
\* sorts before every other type, the others keep their order.
sortPreferred(types, preferred) ==
  SelectSeq(types, LAMBDA t : t = preferred)
    \o SelectSeq(types, LAMBDA t : t # preferred)

\* (mutant) the list of domains is not looked at
optionChecksAnyDomains(types, challenges, preferred, domains) ==
  LET t1 == IF Len(types) = 0 THEN challenges ELSE types
      t2 == IF Len(t1) = 0
              THEN (IF preferred # NoType THEN <<preferred>> ELSE <<>>)
              ELSE t1
      t3 == IF preferred # NoType THEN sortPreferred(t2, preferred) ELSE t2
  IN [challengeTypes |-> t3,
      err |-> IF preferred # NoType /\ (Len(t3) = 0 \/ t3[1] # preferred)
                THEN "challengeType not in challengeTypes"
              ELSE IF Len(t3) = 0 THEN "challengeTypes must be specified"
              ELSE ""]

\* _getCertificate's option checks: the normalised options.challengeTypes and
\* the error of the first failing check ("" when all pass).
optionChecks(types, challenges, preferred, domains) ==
  LET t1 == IF Len(types) = 0 THEN challenges ELSE types
      t2 == IF Len(t1) = 0
              THEN (IF preferred # NoType THEN <<preferred>> ELSE <<>>)
              ELSE t1
      t3 == IF preferred # NoType THEN sortPreferred(t2, preferred) ELSE t2
  IN [challengeTypes |-> t3,
      err |-> IF preferred # NoType /\ (Len(t3) = 0 \/ t3[1] # preferred)
                THEN "challengeType not in challengeTypes"
              ELSE IF Len(t3) = 0 THEN "challengeTypes must be specified"
              ELSE IF Len(domains) = 0 THEN "domains must be a list"
              ELSE ""]

\* the account kid _getCertificate looks for:
\* options.accountKid || options.account && options.account.kid
knownKid(k) == k.arg.accountKid

\* ACME._testChallengeOptions: the types of the four synthetic challenges, in
\* order, and whether each is marked _wildcard
testChallengeOptions ==
  << [type |-> Http01, wildcard |-> FALSE, url |-> "0"],
     [type |-> Dns01, wildcard |-> TRUE, url |-> "1"],
     [type |-> "tls-sni-01", wildcard |-> FALSE, url |-> "2"],
     [type |-> TlsAlpn01, wildcard |-> FALSE, url |-> "3"] >>

\* _chooseChallenge returns undefined
NoChallenge == [type |-> NoType, wildcard |-> FALSE, url |-> ""]

\* (mutant) the offered challenges are tried in the server's order: the first
\* offered challenge of any of the caller's types
chooseChallengeByOffer(types, offered) ==
  LET hit == SelectSeq(offered,
               LAMBDA ch : \E i \in 1..Len(types) : types[i] = ch.type)
  IN IF hit # <<>> THEN Head(hit) ELSE NoChallenge

\* ACME._chooseChallenge: for each of options.challengeTypes in order, the
\* first offered challenge of that type
RECURSIVE chooseChallenge(_, _)
chooseChallenge(types, offered) ==
  IF types = <<>> THEN NoChallenge
  ELSE LET hit == SelectSeq(offered, LAMBDA ch : ch.type = Head(types))
       IN IF hit # <<>> THEN Head(hit)
          ELSE chooseChallenge(Tail(types), offered)

\* _testChallenges: the synthetic challenges offered for an identifier (only
\* the _wildcard ones when it includes "*"), and the one chosen
dryChallenge(types, domain) ==
  chooseChallenge(types,
    IF domain.star
      THEN SelectSeq(testChallengeOptions, LAMBDA ch : ch.wildcard)
      ELSE testChallengeOptions)

\* (dry[i].got, history: what the test of identifier i found)
\* _testChallenges, the callback of each identifier up to the call of
\* options.setChallenge.  _challengeToAuth's promise (not the Auth) is what
\* _setChallenge receives: the one- and two-parameter forms hand it to the
\* caller's function, the legacy form reads auth.identifier.value and throws.
dryStart(k, domain) ==
  LET ch == dryChallenge(k.challengeTypes, domain) IN
  [type |-> ch.type, got |-> "",
   st |-> IF ch = NoChallenge THEN "unsuitable"
          ELSE IF k.arg.setArity \in {1, 2} THEN "set"
          ELSE "threw"]

\* the dry-run calls of options.setChallenge, in the order of the identifiers
RECURSIVE setChallengeCalls(_, _, _)
setChallengeCalls(k, dry, i) ==
  IF i > Len(dry) THEN <<>>
  ELSE (IF dry[i].st = "set"
          THEN <<Outside("setChallenge", k.arg.domains[i].host)>> ELSE <<>>)
       \o setChallengeCalls(k, dry, i + 1)

\* ACME._testChallenges(me, options), its synchronous part and the microtasks
\* it queues
testChallenges(k) ==
  IF skipTest THEN [k EXCEPT !.pc = "order"]
  ELSE
    LET dry == [i \in 1..Len(k.arg.domains) |-> dryStart(k, k.arg.domains[i])]
        k1 == Logged([k EXCEPT !.dry = dry, !.pc = "dry"],
                     setChallengeCalls(k, dry, 1))
    IN IF \E i \in DOMAIN dry : dry[i].st = "unsuitable"
         THEN Reject(k1, "no suitable challenge type")
       ELSE IF \E i \in DOMAIN dry : dry[i].st = "threw"
         THEN Reject(k1, "TypeError")
       ELSE k1

\* ACME._getCertificate(me, options) from the top: the option checks, then
\* with a known kid the self-test, without one the registration
getCertificate(k) ==
  LET chk == optionChecks(k.challengeTypes, k.arg.challenges,
                          k.arg.challengeType, k.arg.domains)
      k1 == [k EXCEPT !.challengeTypes = chk.challengeTypes]
  IN IF chk.err # "" THEN Reject(k1, chk.err)
     ELSE IF knownKid(k1) # NoKid
       THEN testChallenges([k1 EXCEPT !.kid = knownKid(k1)])
     ELSE registerAccount(k1)

\* The options of the certificates.create calls explored.
\* Options that one of the option checks rejects: no domains; no challenge
\* types at all; a challengeType that is not among challengeTypes, or not
\* among the keys of challenges.
RejectedArgs ==
  { [NoArg EXCEPT !.domains = <<>>, !.challengeTypes = <<Http01>>],
    [NoArg EXCEPT !.domains = <<PlainDomain>>],
    [NoArg EXCEPT !.domains = <<PlainDomain>>, !.challengeTypes = <<Dns01>>,
                  !.challengeType = Http01],
    [NoArg EXCEPT !.domains = <<WildDomain, PlainDomain>>,
                  !.challenges = <<Dns01>>, !.challengeType = Http01] }

\* Options without an account kid that pass the checks: the call registers.
\* The second asks for a wildcard with http-01 as its only challenge type.
RegisterArgs ==
  { [NoArg EXCEPT !.domains = <<PlainDomain>>, !.challengeTypes = <<Http01>>],
    [NoArg EXCEPT !.domains = <<WildDomain>>, !.challengeTypes = <<Http01>>] }

\* Options with an account kid that pass the checks: the call goes on to the
\* self-test.  challengeTypes <<dns-01, http-01>> with challengeType http-01
\* is reordered by the checks; the keys of challenges stand in for an empty
\* challengeTypes; setChallenge has one parameter, or is of the legacy form;
\* the account key is an RSA key, or an EC key passed as PEM (third) or as
\* JWK (fifth).
SelfTestArgs ==
  LET kid == [NoArg EXCEPT !.accountKid = CallerKid] IN
  { [kid EXCEPT !.domains = <<PlainDomain>>, !.challengeTypes = <<Http01>>],
    [kid EXCEPT !.domains = <<PlainDomain>>, !.challengeTypes = <<Http01>>,
                !.setArity = 4],
    [kid EXCEPT !.domains = <<PlainDomain>>, !.challenges = <<Dns01>>,
                !.kty = "EC", !.keyForm = "pem"],
    [kid EXCEPT !.domains = <<WildDomain, PlainDomain>>,
                !.challengeTypes = <<Http01>>],
    [kid EXCEPT !.domains = <<WildDomain, PlainDomain>>,
                !.challengeTypes = <<Dns01, Http01>>, !.challengeType = Http01,
                !.kty = "EC"] }

CertArgs == RejectedArgs \cup RegisterArgs \cup SelfTestArgs

\* me.certificates.create(options)
CertificatesCreate(c, a) ==
  /\ dir.loaded
  /\ Room(1 + Len(a.domains))
  /\ calls[c].kind = "none"
  /\ \A d \in Calls : d < c => calls[d].kind # "none"
  /\ calls' = [calls EXCEPT ![c] =
       getCertificate([Idle EXCEPT !.kind = "certificates", !.arg = a,
                                   !.challengeTypes = a.challengeTypes,
                                   !.jwkKty = callerJwkKty(a)])]
  /\ UNCHANGED <<chosen, pem, clock, nonces, dir, skipTest, nextNonce, heads,
                 received, pushed, lastHarvest, sequential>>

\* after a registration: "start back from the top"
Recurse(c) ==
  LET k == calls[c] IN
  /\ k.pc = "recurse"
  /\ Len(Registrations(k)) < MaxReg
  /\ Room(1)
  /\ calls' = [calls EXCEPT ![c] = getCertificate(k)]
  /\ UNCHANGED <<chosen, pem, clock, nonces, dir, skipTest, nextNonce, heads,
                 received, pushed, lastHarvest, sequential>>

\* (mutant) when setChallenge rejects, removeChallenge is called for the
\* identifier
setChallengeRejectedRemoves(k, i) ==
  Logged([k EXCEPT !.dry[i].st = "setFailed",
                   !.pc = IF k.pc = "dry" THEN "rejected" ELSE @,
                   !.err = IF k.pc = "dry" THEN "setChallenge error" ELSE @],
         <<Outside("removeChallenge", k.arg.domains[i].host)>>)

\* _setChallenge's promise rejects (reject(err) / .catch(reject)): the first
\* rejection settles Promise.all and with it the call; nothing else is done
setChallengeRejected(k, i) ==
  [k EXCEPT !.dry[i].st = "setFailed",
            !.pc = IF k.pc = "dry" THEN "rejected" ELSE @,
            !.err = IF k.pc = "dry" THEN "setChallenge error" ELSE @]

\* (mutant) the first identifier that is published settles the wait for all
allPublishedFirst(dry) == \E j \in DOMAIN dry : dry[j].st = "ready"

\* Promise.all over the identifiers: fulfilled when _setChallenge's promise
\* of every identifier is
allPublished(dry) == \A j \in DOMAIN dry : dry[j].st = "ready"

\* a dry-run options.setChallenge delivers its result; on success
\* _setChallenge starts its wait (setChallengeWait).
SetChallengeReturns(c, i, failed) ==
  LET k == calls[c] IN
  /\ i \in DOMAIN k.dry
  /\ k.dry[i].st = "set"
  /\ calls' = [calls EXCEPT ![c] =
       IF failed THEN setChallengeRejected(k, i)
       ELSE [k EXCEPT !.dry[i].st = "wait"]]
  /\ UNCHANGED <<chosen, pem, clock, nonces, dir, skipTest, nextNonce, heads,
                 received, pushed, lastHarvest, sequential>>

\* _setChallenge's wait is over; when it was the last identifier's,
\* _testChallenges starts ACME._wait(CHECK_DELAY)
SetChallengeWaited(c, i) ==
  LET k == calls[c]
      dry == [k.dry EXCEPT ![i].st = "ready"]
  IN
  /\ i \in DOMAIN k.dry
  /\ k.dry[i].st = "wait"
  /\ calls' = [calls EXCEPT ![c] =
       [k EXCEPT !.dry = dry,
                 !.pc = IF k.pc = "dry" /\ allPublished(dry)
                          THEN "delay" ELSE @]]
  /\ UNCHANGED <<chosen, pem, clock, nonces, dir, skipTest, nextNonce, heads,
                 received, pushed, lastHarvest, sequential>>

\* the URL of the http-01 test of an identifier
TestUrl(domain) == domain.host

\* the requests of ACME.challengeTests, in the order of the identifiers:
\* http-01 hands a GET to me.request, dns-01 a TXT query to me.dig
RECURSIVE testRequests(_, _)
testRequests(k, i) ==
  IF i > Len(k.dry) THEN <<>>
  ELSE <<IF k.dry[i].type = Http01
           THEN Plain("GET", TestUrl(k.arg.domains[i]))
           ELSE Outside("dig", TestUrl(k.arg.domains[i]))>>
       \o testRequests(k, i + 1)

\* CHECK_DELAY is over: ACME.challengeTests[auth.type](me, auth) is called
\* for every Auth at once
CheckDelayed(c) ==
  LET k == calls[c]
      reqs == testRequests(k, 1)
  IN
  /\ k.pc = "delay"
  /\ Room(Len(reqs))
  /\ calls' = [calls EXCEPT ![c] =
       Logged([k EXCEPT !.pc = "testing",
                 !.dry = [i \in DOMAIN k.dry |-> [k.dry[i] EXCEPT !.st = "test"]]],
              reqs)]
  /\ UNCHANGED <<chosen, pem, clock, nonces, dir, skipTest, nextNonce, heads, received,
                 pushed, lastHarvest, sequential>>

\* (mutant) the result of the test is not looked at
challengeTestBlind(matches) == "pass"

\* ACME.challengeTests: http-01 compares the trimmed body with
\* auth.keyAuthorization, dns-01 looks for a TXT record whose data is
\* auth.dnsAuthorization; a test that does not find it rejects
challengeTest(matches) == IF matches THEN "pass" ELSE "fail"

\* the answer to one identifier's GET or TXT query arrives
TestReturns(c, i, matches) ==
  LET k == calls[c]
      dry == [k.dry EXCEPT ![i].st = challengeTest(matches),
                           ![i].got = IF matches THEN "match" ELSE "mismatch"]
  IN
  /\ i \in DOMAIN k.dry
  /\ k.dry[i].st = "test"
  /\ calls' = [calls EXCEPT ![c] =
       IF k.pc # "testing" THEN [k EXCEPT !.dry = dry]
       ELSE IF dry[i].st = "fail"
         THEN Reject([k EXCEPT !.dry = dry], "E_FAIL_DRY_CHALLENGE")
       ELSE IF \A j \in DOMAIN dry : dry[j].st = "pass"
         THEN [k EXCEPT !.dry = dry, !.pc = "order"]
       ELSE [k EXCEPT !.dry = dry]]
  /\ UNCHANGED <<chosen, pem, clock, nonces, dir, skipTest, nextNonce, heads,
                 received, pushed, lastHarvest, sequential>>

\* ACME._jwsRequest = function (me, bigopts): the first argument of the call.
\* _getNonce reads me._nonces.shift(): with the request options passed where
\* `me` is expected, me._nonces is undefined and the call throws a TypeError.
jwsRequestThrows(firstArg) == firstArg # "me"

\* the first argument of the newOrder call: ACME._jwsRequest({ options, url,
\* protected, payload })
newOrderFirstArg == "bigopts"

\* options._kty = privateKeyJwk && privateKeyJwk.kty || 'RSA'
optionsKty(jwkKty) == IF jwkKty # "" THEN jwkKty ELSE "RSA"

\* options._alg = ('EC' === options._kty) ? 'ES256' : 'RS256'
optionsAlg(kty) == IF kty = "EC" THEN "ES256" ELSE "RS256"

\* the callback after the self-test: the newOrder payload, options._kty and
\* options._alg, then the call of ACME._jwsRequest for newOrder
NewOrder(c) ==
  LET k0 == calls[c]
      k == [k0 EXCEPT !.alg = optionsAlg(optionsKty(k0.jwkKty))]
  IN
  /\ k0.pc = "order"
  /\ calls' = [calls EXCEPT ![c] =
       IF jwsRequestThrows(newOrderFirstArg) THEN Reject(k, "TypeError")
       ELSE [k EXCEPT !.pc = "jws",
                      !.req = [url |-> NewOrderUrl, kid |-> k.kid,
                               jwk |-> NoJwk]]]
  /\ UNCHANGED <<chosen, pem, clock, nonces, dir, skipTest, nextNonce, heads,
                 received, pushed, lastHarvest, sequential>>

\* -------------------------------------------------- ACME._getChallenges

\* ACME._getChallenges(me, options, authUrl), called with the options of a
\* registered account: _jwsRequest(me, { url: authUrl, protected: {},
\* payload: '' })
getChallenges(k) ==
  [k EXCEPT !.pc = "jws",
            !.req = [url |-> AuthzUrl, kid |-> NoKid, jwk |-> NoJwk]]

GetChallengesCall(c) ==
  /\ dir.loaded
  /\ calls[c].kind = "none"
  /\ \A d \in Calls : d < c => calls[d].kind # "none"
  /\ \E d \in Calls : calls[d].pc = "resolved" /\ calls[d].kid # NoKid
  /\ Room(1)
  /\ calls' = [calls EXCEPT ![c] =
       getChallenges([Idle EXCEPT !.kind = "getChallenges", !.kid = AcctUrl])]
  /\ UNCHANGED <<chosen, pem, clock, nonces, dir, skipTest, nextNonce, heads,
                 received, pushed, lastHarvest, sequential>>

\* ------------------------------------------------------------ PEM chains

\* A text is a sequence of characters; CR and LF are the two line breaks.
CR == "CR"
LF == "LF"
Dash == "-"
IsBreak(ch) == ch \in {CR, LF}
\* String.prototype.trim strips white space, line breaks included
IsSpace(ch) == ch \in {CR, LF, " "}

RECURSIVE trimStart(_)
trimStart(s) ==
  IF s # <<>> /\ IsSpace(Head(s)) THEN trimStart(Tail(s)) ELSE s

RECURSIVE trimEnd(_)
trimEnd(s) ==
  IF s # <<>> /\ IsSpace(s[Len(s)]) THEN trimEnd(SubSeq(s, 1, Len(s) - 1))
  ELSE s

\* str.trim()
trim(s) == trimEnd(trimStart(s))

\* the text after the line breaks it starts with
RECURSIVE skipBreaks(_)
skipBreaks(s) ==
  IF s # <<>> /\ IsBreak(Head(s)) THEN skipBreaks(Tail(s)) ELSE s

\* .replace(/[\r\n]+/g, '\n'): every run of line breaks becomes one LF
RECURSIVE joinBreaks(_)
joinBreaks(s) ==
  IF s = <<>> THEN <<>>
  ELSE IF IsBreak(Head(s)) THEN <<LF>> \o joinBreaks(skipBreaks(s))
  ELSE <<Head(s)>> \o joinBreaks(Tail(s))

\* (mutant) no empty line is put between two certificates
blankLinesNone(s) == s

\* .replace(/\-\n\-/g, '-\n\n-'): an empty line between a line that ends with
\* a dash and a line that starts with one; matches do not overlap
RECURSIVE blankLines(_)
blankLines(s) ==
  IF s = <<>> THEN <<>>
  ELSE IF Len(s) >= 3 /\ s[1] = Dash /\ s[2] = LF /\ s[3] = Dash
    THEN <<Dash, LF, LF, Dash>> \o blankLines(SubSeq(s, 4, Len(s)))
  ELSE <<Head(s)>> \o blankLines(Tail(s))

\* ACME.formatPemChain
formatPemChain(str) == blankLines(joinBreaks(trim(str))) \o <<LF>>

\* .split(/[\r\n]{2,}/g): the text is cut at every run of two or more line
\* breaks; cur is the piece being read
RECURSIVE splitRuns(_, _)
splitRuns(s, cur) ==
  IF s = <<>> THEN <<cur>>
  ELSE IF Len(s) - Len(skipBreaks(s)) >= 2
    THEN <<cur>> \o splitRuns(skipBreaks(s), <<>>)
  ELSE splitRuns(Tail(s), cur \o <<Head(s)>>)

\* ACME.splitPemChain
splitPemChain(str) ==
  LET parts == splitRuns(trim(str), <<>>)
  IN [i \in 1..Len(parts) |-> parts[i] \o <<LF>>]

\* The certificates a server may send.  A certificate is its lines (a line of
\* dashes, the base64 lines, a line of dashes) and the line break that ends
\* each of its lines but the last.
BeginLine == <<Dash, "B", Dash>>
EndLine == <<Dash, "E", Dash>>
PemLines == { <<BeginLine, <<"M", "I">>, EndLine>>,
              <<BeginLine, <<"M", "I">>, <<"Q">>, EndLine>> }
PemBlocks == [lines : PemLines, eol : {<<LF>>, <<CR, LF>>}]

RECURSIVE joinLines(_, _)
joinLines(lines, eol) ==
  IF Len(lines) = 1 THEN lines[1]
  ELSE lines[1] \o eol \o joinLines(Tail(lines), eol)

\* the text of one certificate
blockText(b) == joinLines(b.lines, b.eol)

\* runs of 1..n line breaks, each LF or CRLF
RECURSIVE BreakRuns(_)
BreakRuns(n) ==
  IF n = 0 THEN {}
  ELSE {<<LF>>, <<CR, LF>>}
       \cup { r \o e : r \in BreakRuns(n - 1), e \in {<<LF>>, <<CR, LF>>} }

\* chains of 1..n certificates with the run of line breaks before each but
\* the first: sequences of [block, sep]
RECURSIVE Chains(_)
Chains(n) ==
  IF n = 1 THEN { <<[block |-> b, sep |-> <<>>]>> : b \in PemBlocks }
  ELSE Chains(n - 1)
       \cup { ch \o <<[block |-> b, sep |-> r]>> :
                ch \in Chains(n - 1), b \in PemBlocks, r \in BreakRuns(MaxSep) }

RECURSIVE chainText(_)
chainText(ch) ==
  IF ch = <<>> THEN <<>>
  ELSE chainText(SubSeq(ch, 1, Len(ch) - 1))
         \o ch[Len(ch)].sep \o blockText(ch[Len(ch)].block)

\* the body of a certificate response: a chain, with or without a line break
\* at its end
InitPem ==
  /\ clock = 0
  /\ nonces = <<>>
  /\ dir = [pc |-> "none", loaded |-> FALSE, tos |-> ""]
  /\ skipTest = FALSE
  /\ calls = [c \in Calls |-> Idle]
  /\ nextNonce = 1
  /\ heads = 0
  /\ received = {}
  /\ pushed = {}
  /\ lastHarvest = NoEntry
  /\ sequential = TRUE
  /\ chosen = NoChoice
  /\ \E ch \in Chains(MaxBlocks), last \in {<<>>, <<LF>>, <<CR, LF>>} :
       pem = [blocks |-> [i \in 1..Len(ch) |-> ch[i].block],
              body |-> chainText(ch) \o last,
              done |-> FALSE, certsarr |-> <<>>]

\* var certsarr = ACME.splitPemChain(ACME.formatPemChain((resp.body||'')))
CertificateBody ==
  /\ ~pem.done
  /\ pem' = [pem EXCEPT !.done = TRUE,
                        !.certsarr = splitPemChain(formatPemChain(pem.body))]
  /\ UNCHANGED <<chosen, clock, nonces, dir, skipTest, calls, nextNonce,
                 heads, received, pushed, lastHarvest, sequential>>

SpecPem == InitPem /\ [][CertificateBody]_vars

\* ------------------------------------------------ ACME._chooseChallenge

ChallengeTypes == {Http01, Dns01, TlsAlpn01}

\* the sequences over S of length at most n
SeqsUpTo(S, n) == UNION { [1..m -> S] : m \in 0..n }

\* the challenges a server may offer for an authorization; two of one type
\* differ in their url
Offers == [type : ChallengeTypes, wildcard : {FALSE}, url : {"u1", "u2"}]

\* options.challengeTypes and results.challenges of a call of
\* ACME._chooseChallenge
InitChoose ==
  /\ clock = 0
  /\ nonces = <<>>
  /\ dir = [pc |-> "none", loaded |-> FALSE, tos |-> ""]
  /\ skipTest = FALSE
  /\ calls = [c \in Calls |-> Idle]
  /\ nextNonce = 1
  /\ heads = 0
  /\ received = {}
  /\ pushed = {}
  /\ lastHarvest = NoEntry
  /\ sequential = TRUE
  /\ pem = NoPem
  /\ \E types \in SeqsUpTo(ChallengeTypes, MaxTypes),
        offered \in SeqsUpTo(Offers, MaxOffered) :
       chosen = [NoChoice EXCEPT !.types = types, !.offered = offered]

\* ACME._chooseChallenge(options, results)
ChooseChallenge ==
  /\ ~chosen.done
  /\ chosen' = [chosen EXCEPT
       !.done = TRUE,
       !.challenge = chooseChallenge(chosen.types, chosen.offered)]
  /\ UNCHANGED <<pem, clock, nonces, dir, skipTest, calls, nextNonce, heads,
                 received, pushed, lastHarvest, sequential>>

\* ACME._testChallenges with the same options.challengeTypes: the callback
\* of the identifier `domain`, up to the call of options.setChallenge
TestChallengesChoose(domain) ==
  /\ Len(chosen.dry) < 2
  /\ \A i \in 1..Len(chosen.dry) : chosen.dry[i].domain # domain
  /\ chosen' = [chosen EXCEPT !.dry = Append(@,
       [domain |-> domain,
        dry |-> dryStart([Idle EXCEPT !.challengeTypes = chosen.types,
                                      !.arg = [NoArg EXCEPT !.setArity = 1]],
                         domain)])]
  /\ UNCHANGED <<pem, clock, nonces, dir, skipTest, calls, nextNonce, heads,
                 received, pushed, lastHarvest, sequential>>

SpecChoose ==
  InitChoose /\ [][ChooseChallenge
                   \/ \E d \in {PlainDomain, WildDomain} :
                        TestChallengesChoose(d)]_vars

\* -------------------------------------------------- ACME._postChallenge

\* the first argument of respondToChallenge's call: ACME._jwsRequest({
\* options, url: auth.url, protected: { kid }, payload })
respondFirstArg == "bigopts"

\* ACME._postChallenge(me, options, auth) with the options of a registered
\* account and the Auth of a published challenge: respondToChallenge() calls
\* ACME._jwsRequest to POST {} to the challenge URL
postChallenge(k) ==
  IF jwsRequestThrows(respondFirstArg) THEN Reject(k, "TypeError")
  ELSE [k EXCEPT !.pc = "jws",
                 !.req = [url |-> ChallengeUrl, kid |-> k.kid, jwk |-> NoJwk]]

PostChallengeCall(c) ==
  /\ dir.loaded
  /\ calls[c].kind = "none"
  /\ \A d \in Calls : d < c => calls[d].kind # "none"
  /\ \E d \in Calls : calls[d].pc = "resolved" /\ calls[d].kid # NoKid
  /\ Room(1)
  /\ calls' = [calls EXCEPT ![c] =
       postChallenge([Idle EXCEPT !.kind = "postChallenge", !.kid = AcctUrl])]
  /\ UNCHANGED <<chosen, pem, clock, nonces, dir, skipTest, nextNonce, heads,
                 received, pushed, lastHarvest, sequential>>

\* -------------------------------------------------- ACME._finalizeOrder

\* the first argument of pollCert's call: ACME._jwsRequest({ options,
\* url: options._finalize, protected: { kid }, payload })
pollCertFirstArg == "bigopts"

\* ACME._finalizeOrder(me, options, validatedDomains) with the options of a
\* registered account: the CSR is made, then pollCert() calls
\* ACME._jwsRequest to POST it to options._finalize
finalizeOrder(k) ==
  IF jwsRequestThrows(pollCertFirstArg) THEN Reject(k, "TypeError")
  ELSE [k EXCEPT !.pc = "jws",
                 !.req = [url |-> FinalizeUrl, kid |-> k.kid, jwk |-> NoJwk]]

FinalizeOrderCall(c) ==
  /\ dir.loaded
  /\ calls[c].kind = "none"
  /\ \A d \in Calls : d < c => calls[d].kind # "none"
  /\ \E d \in Calls : calls[d].pc = "resolved" /\ calls[d].kid # NoKid
  /\ Room(1)
  /\ calls' = [calls EXCEPT ![c] =
       finalizeOrder([Idle EXCEPT !.kind = "finalizeOrder", !.kid = AcctUrl])]
  /\ UNCHANGED <<chosen, pem, clock, nonces, dir, skipTest, nextNonce, heads,
                 received, pushed, lastHarvest, sequential>>

\* ------------------------------------------------------ specification

Next ==
  \/ \E shape \in InitShapes : InitCall(shape)
  \/ \E hasNonce \in BOOLEAN : DirectoryResponse(hasNonce)
  \/ \E c \in Calls, arity \in AgreeArities : AccountsCreate(c, arity)
  \/ \E c \in Calls, a \in CertArgs : CertificatesCreate(c, a)
  \/ \E c \in Calls, failed \in BOOLEAN, tosUrl \in {TosUrl, OtherTosUrl} :
       AgreeReturns(c, failed, tosUrl)
  \/ \E c \in Calls, elapsed \in Elapsed : GetNonce(c, elapsed)
  \/ \E c \in Calls : HeadResponse(c)
  \/ \E c \in Calls, fills \in BOOLEAN : SignAndPost(c, fills)
  \/ \E c \in Calls, ok \in BOOLEAN, hasNonce \in BOOLEAN, elapsed \in Elapsed :
       PostResponse(c, ok, hasNonce, elapsed)
  \/ \E c \in Calls : Recurse(c)
  \/ \E c \in Calls, i \in 1..2, failed \in BOOLEAN :
       SetChallengeReturns(c, i, failed)
  \/ \E c \in Calls, i \in 1..2 : SetChallengeWaited(c, i)
  \/ \E c \in Calls : CheckDelayed(c)
  \/ \E c \in Calls, i \in 1..2, matches \in BOOLEAN : TestReturns(c, i, matches)
  \/ \E c \in Calls : NewOrder(c)

Spec == Init /\ [][Next]_vars

\* the same client with the steps of the order called directly:
\* ACME._getChallenges, ACME._postChallenge and ACME._finalizeOrder
NextHelpers ==
  \/ Next
  \/ \E c \in Calls : GetChallengesCall(c)
  \/ \E c \in Calls : PostChallengeCall(c)
  \/ \E c \in Calls : FinalizeOrderCall(c)

SpecHelpers == Init /\ [][NextHelpers]_vars

\* ================================================================ claims

\* the nonce values handed to a signer: in the protected headers of the
\* requests sent, and held by a call between _getNonce and the POST
Posted == { <<c, i>> \in Calls \X (1..MaxOps) : i <= Len(calls[c].log)
                                              /\ calls[c].log[i].signed }
Holding == { c \in Calls : calls[c].pc = "sign" }

\* C1 (nonce single-use): no nonce value is in the protected header of two
\* outgoing requests, whatever the interleaving of the calls; a nonce handed
\* to a signer is handed to no other, and it is no longer in the cache.
C1_NonceSingleUse ==
  /\ \A p \in Posted, q \in Posted :
       p # q => calls[p[1]].log[p[2]].nonce.nonce
                  # calls[q[1]].log[q[2]].nonce.nonce
  /\ \A c \in Holding, d \in Holding :
       c # d => calls[c].held.nonce # calls[d].held.nonce
  /\ \A c \in Holding, p \in Posted :
       calls[c].held.nonce # calls[p[1]].log[p[2]].nonce.nonce
  /\ \A i \in 1..Len(nonces) :
       /\ \A c \in Holding : nonces[i].nonce # calls[c].held.nonce
       /\ \A p \in Posted : nonces[i].nonce # calls[p[1]].log[p[2]].nonce.nonce

\* two certificates.create calls inside _jwsRequest at once: one has posted
\* its request, the other holds the nonce for its own
C1_Witness ==
  /\ calls[1].kind = "certificates" /\ calls[2].kind = "certificates"
  /\ \E c \in Calls, d \in Calls :
       /\ calls[c].pc = "post" /\ calls[d].pc = "sign"
       /\ calls[d].held.nonce # 0

\* the index of the first entry of the cache q still fresh at time now
\* (0 when every entry has outlived the 15 minutes)
FirstFresh(q, now) ==
  IF \E i \in 1..Len(q) : now - q[i].createdAt <= NonceTTL
  THEN CHOOSE i \in 1..Len(q) :
         /\ now - q[i].createdAt <= NonceTTL
         /\ \A j \in 1..(i - 1) : now - q[j].createdAt > NonceTTL
  ELSE 0

\* a step in which call c runs _getNonce
Acquires(c) == calls[c].pc = "jws" /\ calls'[c].pc \in {"sign", "head"}

C2_HeadersFresh ==
  /\ \A p \in Posted : calls[p[1]].log[p[2]].nonce.age <= NonceTTL
  /\ \A c \in Holding : calls[c].held.age <= NonceTTL

C2_Acquisition ==
  \A c \in Calls :
    Acquires(c) =>
      LET f == FirstFresh(nonces, clock') IN
        IF f = 0
        THEN /\ calls'[c].pc = "head"
             /\ nonces' = <<>>
             /\ heads' = heads + 1
             /\ Len(calls'[c].log) = Len(calls[c].log) + 1
             /\ calls'[c].log[Len(calls'[c].log)].method = "HEAD"
        ELSE /\ calls'[c].pc = "sign"
             /\ calls'[c].held.nonce = nonces[f].nonce
             /\ nonces' = SubSeq(nonces, f + 1, Len(nonces))
             /\ heads' = heads

\* C2 (nonce expiry): a cached nonce older than 15 minutes when it is
\* acquired never reaches an outgoing header; _getNonce drops it and tries
\* the next entry, and when no fresh entry is left it fetches a nonce with a
\* HEAD of newNonce.
C2_NonceExpiry == [] C2_HeadersFresh /\ [][C2_Acquisition]_vars

\* a harvested nonce that is neither cached nor was ever handed to a signer
\* (it was dropped for its age), and the call that met it is waiting for the
\* answer to its HEAD
C2_Witness ==
  /\ \E n \in pushed :
       /\ \A i \in 1..Len(nonces) : nonces[i].nonce # n
       /\ \A p \in Posted : calls[p[1]].log[p[2]].nonce.nonce # n
       /\ \A c \in Calls : calls[c].held.nonce # n
  /\ \E c \in Calls : calls[c].pc = "head" /\ SignedRequests(calls[c]) # <<>>

\* C3 as stated (refuted): the Replay-Nonce of any response, the directory
\* GET included, has been pushed onto the cache.
C3_AnyResponseHarvested ==
  \A r \in received : r.method \in {"GET", "POST"} => r.nonce \in pushed

\* C3 (nonce harvesting, amended): the Replay-Nonce of the response to a
\* signed POST, the requests made through ACME._request, has been pushed
\* onto the cache once the response is received.
C3_SignedResponseHarvested ==
  \A r \in received : r.signed => r.nonce \in pushed

C3_Witness ==
  \E r \in received : r.signed /\ r.method = "POST" /\ r.nonce \in pushed

\* C4 as stated (refuted by the code): the signed request after a response
\* with a Replay-Nonce carries exactly that value, the string of the header,
\* as the nonce of its protected header.
C4_NextCarriesHarvested ==
  \A p \in Posted :
    LET e == calls[p[1]].log[p[2]] IN
      e.expect # 0 => (~e.nonce.isEntry /\ e.nonce.nonce = e.expect)

\* some signed request has been sent, by now or by a call inside _jwsRequest
Acquired ==
  \E c \in Calls : calls[c].pc \in {"head", "sign", "post"}
                     \/ SignedRequests(calls[c]) # <<>>

C5_OneHead == (sequential /\ Acquired) => heads = 1

C5_HeadOnlyWhenEmpty ==
  heads' > heads =>
    /\ heads' = heads + 1
    /\ \A i \in 1..Len(nonces) : clock' - nonces[i].createdAt > NonceTTL

\* C5 (one HEAD per sequential session): while signed requests run one after
\* the other, every response carries a Replay-Nonce and no nonce expires,
\* exactly one HEAD of newNonce has been made, by the first signed request;
\* a HEAD is made only when the cache holds no unexpired nonce.
C5_SingleHead == [] C5_OneHead /\ [][C5_HeadOnlyWhenEmpty]_vars

\* a sequential session of two calls, each with a signed request sent
C5_Witness ==
  /\ sequential /\ heads = 1
  /\ \A c \in Calls : SignedRequests(calls[c]) # <<>>

\* C6 as stated (refuted by the code): the protected header of every signed
\* request holds exactly one of kid and jwk; it is jwk only for newAccount,
\* and every other signed request carries the account URL as kid.
C6_KidXorJwk ==
  \A p \in Posted :
    LET e == calls[p[1]].log[p[2]]
        hasKid == e.kid \notin {NoKid, KidFalse}
        hasJwk == e.jwk # NoJwk
    IN  /\ hasKid # hasJwk
        /\ hasJwk <=> e.url = NewAccountUrl
        /\ e.url # NewAccountUrl => e.kid \in {AcctUrl, CallerKid}

\* C7 (terms of service must match): when options.agreeToTerms of
\* accounts.create delivers a URL other than the termsOfService of the
\* directory, the call is rejected with E_AGREE_TOS, it has sent no
\* newAccount request and it has no kid.
C7_TosMustMatch ==
  \A c \in Calls :
    LET k == calls[c] IN
      (k.kind = "accounts" /\ k.agreed # "" /\ k.agreed # dir.tos) =>
        /\ k.pc = "rejected" /\ k.err = "E_AGREE_TOS"
        /\ Registrations(k) = <<>>
        /\ SignedRequests(k) = <<>>
        /\ k.kid = NoKid

C7_Witness ==
  \E c \in Calls :
    /\ calls[c].kind = "accounts" /\ calls[c].agreed = OtherTosUrl
    /\ calls[c].pc = "rejected"
    /\ \E d \in Calls : calls[d].kind = "accounts" /\ calls[d].agreed = TosUrl

\* C8 as stated (refuted by the code): certificates.create called without an
\* account kid registers the account exactly once before it goes on.
C8_RegistersOnce ==
  \A c \in Calls :
    (calls[c].kind = "certificates" /\ calls[c].arg.accountKid = NoKid) =>
      Len(Registrations(calls[c])) <= 1

\* the challenge types the caller supplied: options.challengeTypes, or the
\* keys of options.challenges
Supplied(a) == IF a.challengeTypes # <<>> THEN a.challengeTypes ELSE a.challenges

\* the three cases in which the options are refused
Refused(a) ==
  \/ a.domains = <<>>
  \/ Supplied(a) = <<>> /\ a.challengeType = NoType
  \/ /\ a.challengeType # NoType
     /\ Supplied(a) # <<>>
     /\ \A i \in 1..Len(Supplied(a)) : Supplied(a)[i] # a.challengeType

\* C9 (preflight rejection): certificates.create with a challengeType that is
\* not among the challengeTypes, with neither challengeTypes nor a
\* challengeType, or with an empty list of domains is rejected, and it makes
\* no HTTP request and invokes none of the caller's callbacks.
C9_Preflight ==
  \A c \in Calls :
    LET k == calls[c] IN
      (k.kind = "certificates" /\ Refused(k.arg)) =>
        /\ k.pc = "rejected" /\ k.err # ""
        /\ k.log = <<>>
        /\ k.dry = <<>>

C9_Witness ==
  \E c \in Calls, d \in Calls :
    /\ calls[c].kind = "certificates" /\ calls[c].arg.domains = <<>>
    /\ calls[c].pc = "rejected"
    /\ calls[d].kind = "certificates" /\ calls[d].arg.domains # <<>>
    /\ Refused(calls[d].arg) /\ calls[d].pc = "rejected"

\* the requests of the order: newOrder, the authorizations and what follows
OrderRequests(k) ==
  SelectSeq(k.log, LAMBDA e : e.op = "http"
                               /\ e.url \in {NewOrderUrl, AuthzUrl})

\* C10 (self-test gate): with the self-test on, when the test of some
\* identifier does not find the published token, certificates.create is
\* rejected with E_FAIL_DRY_CHALLENGE and has sent no newOrder, authorization
\* or challenge request.
C10_SelfTestGate ==
  \A c \in Calls :
    LET k == calls[c] IN
      (\E i \in 1..Len(k.dry) : k.dry[i].got = "mismatch") =>
        /\ ~skipTest
        /\ k.pc = "rejected" /\ k.err = "E_FAIL_DRY_CHALLENGE"
        /\ OrderRequests(k) = <<>>
        /\ SignedRequests(k) = <<>>

\* of two identifiers one passed its test and the other failed
C10_Witness ==
  \E c \in Calls :
    /\ Len(calls[c].dry) = 2
    /\ \E i, j \in 1..2 : /\ calls[c].dry[i].got = "match"
                          /\ calls[c].dry[j].got = "mismatch"
    /\ calls[c].pc = "rejected"

\* C20 as stated (refuted): splitPemChain(formatPemChain(chain)) yields
\* exactly the certificates of the chain as they were sent, in their order,
\* each followed by a single line break.
C20_RoundTripExact ==
  pem.done =>
    pem.certsarr = [i \in 1..Len(pem.blocks) |-> blockText(pem.blocks[i]) \o <<LF>>]

\* C20 (PEM round trip, amended): splitPemChain(formatPemChain(chain)) yields
\* the certificates of the chain in their order, each with the line breaks
\* between its lines turned into single LFs and followed by a single LF.
C20_RoundTripNormalised ==
  pem.done =>
    pem.certsarr = [i \in 1..Len(pem.blocks) |->
                      joinLines(pem.blocks[i].lines, <<LF>>) \o <<LF>>]

\* a chain of two certificates, one with CRLF lines, split again
C20_Witness ==
  /\ pem.done
  /\ Len(pem.blocks) = 2 /\ Len(pem.certsarr) = 2
  /\ pem.blocks[1].eol = <<CR, LF>> /\ pem.blocks[2].eol = <<LF>>

\* what a finished init has stored: the directory and its ToS URL
C17_Stored == dir.pc = "done" => (dir.loaded /\ dir.tos = TosUrl)

\* a call of init either hands the GET of the directory URL to the transport
\* or, given a directory object, stores it at once; it does not fail
C17_InitStep ==
  (dir.pc = "none" /\ dir'.pc # "none") =>
    \/ dir'.pc = "get" /\ ~dir'.loaded
    \/ dir'.pc = "done" /\ dir'.loaded /\ dir'.tos = TosUrl

\* C17 as stated (refuted by the code): init with a directory URL performs
\* one GET and stores the result and its meta.termsOfService; init with a
\* loaded directory object { newNonce, newAccount, newOrder,
\* meta: { termsOfService } } stores it as it is, without a request and
\* without failing.
C17_DirectoryInit == [] C17_Stored /\ [][C17_InitStep]_vars

\* C19 as stated (refuted by the code): the signing algorithm the client
\* attributes to the account key (options._alg) is ES256 for an EC key and
\* RS256 for any other, whether the key came as JWK or as PEM and whether
\* or not the caller supplied the account kid.
C19_AlgSelection ==
  \A c \in Calls :
    calls[c].alg # "" =>
      calls[c].alg = (IF calls[c].arg.kty = "EC" THEN "ES256" ELSE "RS256")

\* the call asks for a wildcard and dns-01 is not among its challenge types
WildcardWithoutDns(k) ==
  /\ k.kind = "certificates"
  /\ \E i \in 1..Len(k.arg.domains) : k.arg.domains[i].star
  /\ \A i \in 1..Len(Supplied(k.arg)) : Supplied(k.arg)[i] # Dns01
  /\ k.arg.challengeType # Dns01

\* C11 as stated (refuted by the code): for a domain that begins with "*."
\* the only challenge type chosen is dns-01, and when dns-01 is not among the
\* caller's challenge types certificates.create fails before any POST is sent
\* to the server.
C11_WildcardChooser ==
  \A c \in Calls :
    LET k == calls[c] IN
      /\ \A i \in 1..Len(k.dry) :
           k.arg.domains[i].star => k.dry[i].type \in {Dns01, NoType}
      /\ WildcardWithoutDns(k) =>
           /\ \A i \in 1..Len(k.log) : k.log[i].method # "POST"
           /\ k.pc # "resolved"

\* the errors a call ends with because its environment failed it: a non-2xx
\* answer, a callback that rejects or does not agree, a self-test that does
\* not find the token
EnvErrors ==
  {"account error", "agreeToTerms error", "E_AGREE_TOS", "setChallenge error",
   "E_FAIL_DRY_CHALLENGE"}

\* the URLs of the POSTs a call has sent, in order
RECURSIVE PostUrls(_)
PostUrls(log) ==
  IF log = <<>> THEN <<>>
  ELSE (IF Head(log).method = "POST" THEN <<Head(log).url>> ELSE <<>>)
       \o PostUrls(Tail(log))

\* the POSTs of the happy path of one http-01 domain, in order
HappyPosts ==
  <<NewAccountUrl, NewOrderUrl, AuthzUrl, ChallengeUrl, FinalizeUrl>>

IsPrefix(s, t) == Len(s) <= Len(t) /\ s = SubSeq(t, 1, Len(s))

\* certificates.create for a single http-01 domain, without an account kid
HappyCall(k) ==
  /\ k.kind = "certificates"
  /\ k.arg.domains = <<PlainDomain>>
  /\ k.arg.challengeTypes = <<Http01>>
  /\ k.arg.accountKid = NoKid
  /\ k.arg.setArity = 1

\* C18 as stated (refuted by the code): certificates.create for a single
\* http-01 domain that its environment does not fail (cooperative server,
\* passing self-test) sends POST newAccount, POST newOrder, the POST-as-GET
\* of the authorization, the POST to the challenge and POST finalize, in
\* this order, and does not fail.
C18_HappyPath ==
  \A c \in Calls :
    LET k == calls[c] IN
      (HappyCall(k) /\ k.err \notin EnvErrors) =>
        /\ IsPrefix(PostUrls(k.log), HappyPosts)
        /\ k.pc # "rejected"

\* the self-test of the call is over and has let it pass: the callback that
\* follows it is due or has run (it is the one that sets options._alg)
SelfTestPassed(k) ==
  /\ k.kind = "certificates"
  /\ k.pc = "order" \/ k.alg # ""

\* C12 as stated (refuted by the code): certificates.create goes on to
\* finalize when an authorization of its order is already valid; whatever
\* the authorizations of the server are, a call that has passed the
\* self-test and that its environment has not failed does not settle before
\* it has sent the finalize request.
C12_ProceedsToFinalize ==
  \A c \in Calls :
    LET k == calls[c] IN
      (SelfTestPassed(k) /\ Settled(k) /\ k.err \notin EnvErrors) =>
        \E i \in 1..Len(k.log) :
          k.log[i].method = "POST" /\ k.log[i].url = FinalizeUrl

\* entry i of the log hands an Auth to setChallenge and no later entry hands
\* the Auth of that identifier to removeChallenge
Unremoved(k, i) ==
  /\ k.log[i].op = "setChallenge"
  /\ \A j \in (i + 1)..Len(k.log) :
       ~(k.log[j].op = "removeChallenge" /\ k.log[j].url = k.log[i].url)

C13_PendingRetry ==
  \A c \in Calls :
    LET k == calls[c] IN
      (k.kind = "postChallenge" /\ k.pc = "rejected") =>
        /\ \E i \in 1..Len(k.log) :
             k.log[i].method = "POST" /\ k.log[i].url = ChallengeUrl
        /\ \E i \in 1..Len(k.log) :
             k.log[i].method = "GET" /\ k.log[i].url = ChallengeUrl

\* the last signed request of the call, a request of the order, was answered
\* with a status that is not 2xx
OrderRequestRefused(k) ==
  LET sent == SignedRequests(k) IN
    /\ k.status = "non-2xx"
    /\ k.pc # "post"
    /\ sent # <<>>
    /\ sent[Len(sent)].url \in {NewOrderUrl, AuthzUrl, ChallengeUrl, FinalizeUrl}

\* C14 as stated (refuted by the code): when the server answers a signed
\* request of the order (newOrder, authorization fetch, challenge accept,
\* deactivate, finalize) with a non-2xx status, the operation that sent it
\* fails; the response is not taken for a result.
C14_ErrorsBubble ==
  \A c \in Calls :
    OrderRequestRefused(calls[c]) =>
      calls[c].pc = "rejected" /\ calls[c].err # ""

\* the positions in types of the caller's types that are offered at all
OfferedTypes(types, offered) ==
  { i \in 1..Len(types) : \E j \in 1..Len(offered) : offered[j].type = types[i] }

Least(S) == CHOOSE n \in S : \A m \in S : n <= m

\* C27 (challenge choice): the chooser returns the first offered challenge
\* whose type is the earliest of the caller's challengeTypes that is offered
\* at all; it returns nothing exactly when no offered challenge has one of
\* the caller's types, and for an identifier for which it returns nothing
\* the driver does not call setChallenge.
C27_ChallengeChoice ==
  /\ chosen.done =>
       LET hits == OfferedTypes(chosen.types, chosen.offered) IN
         IF hits = {} THEN chosen.challenge = NoChallenge
         ELSE LET t == chosen.types[Least(hits)]
                  j == Least({ n \in 1..Len(chosen.offered) :
                                 chosen.offered[n].type = t })
              IN chosen.challenge = chosen.offered[j]
  /\ \A i \in 1..Len(chosen.dry) :
       LET d == chosen.dry[i]
           offered == IF d.domain.star
                        THEN SelectSeq(testChallengeOptions,
                                       LAMBDA ch : ch.wildcard)
                        ELSE testChallengeOptions
       IN /\ d.dry.st = "unsuitable" <=> OfferedTypes(chosen.types, offered) = {}
          /\ d.dry.st # "unsuitable" =>
               d.dry.type = chosen.types[Least(OfferedTypes(chosen.types, offered))]

\* the chooser was called with two caller types of which the second is
\* offered first, and with two offered challenges of the chosen type; and
\* with only http-01 and tls-alpn-01 the self-test found nothing for a wildcard
C27_Witness ==
  /\ chosen.done
  /\ Len(chosen.types) = 2 /\ Len(chosen.offered) = 2
  /\ chosen.types[1] # chosen.types[2]
  /\ chosen.offered[1].type = chosen.types[2]
  /\ chosen.offered[2].type = chosen.types[1]
  /\ chosen.challenge = chosen.offered[2]
  /\ \E i \in 1..Len(chosen.dry) :
       chosen.dry[i].domain.star /\ chosen.dry[i].dry.st = "unsuitable"

\* the asynchronous operations a call has outstanding: on its main chain an
\* HTTP request, a signature, a call of agreeToTerms or the CHECK_DELAY wait;
\* in the self-test, per identifier, a call of setChallenge, the wait that
\* follows it, or the test request
MainOutstanding(k) ==
  IF k.pc \in {"head", "sign", "post", "agree", "delay"} THEN 1 ELSE 0

DryOutstanding(k) ==
  Cardinality({ i \in DOMAIN k.dry : k.dry[i].st \in {"set", "wait", "test"} })

\* C28 as stated (refuted by the code): a certificates.create has at most one
\* asynchronous operation outstanding at any moment, the self-test over
\* several identifiers included.
C28_OneAtATime ==
  \A c \in Calls :
    calls[c].kind = "certificates" =>
      MainOutstanding(calls[c]) + DryOutstanding(calls[c]) <= 1

\* C28 (amended): outside the self-test a certificates.create has at most
\* one asynchronous operation outstanding.  The self-test has one per
\* identifier: setChallenge is called for all identifiers at once, while any
\* of these calls or the waits that follow them is outstanding nothing else
\* is, and the test requests are sent, all at once, only when every
\* identifier has been published and CHECK_DELAY is over.
C28_OnePerIdentifierInSelfTest ==
  \A c \in Calls :
    LET k == calls[c] IN
      k.kind = "certificates" =>
        /\ DryOutstanding(k) > 0 => MainOutstanding(k) = 0
        /\ DryOutstanding(k) <= Len(k.arg.domains)
        /\ \A i, j \in DOMAIN k.dry :
             ~(k.dry[i].st = "test" /\ k.dry[j].st \in {"set", "wait"})
        /\ DryOutstanding(k) > 1 => k.pc \in {"dry", "testing", "rejected"}

\* a certificates.create for two identifiers has both calls of setChallenge
\* outstanding
C28_Witness ==
  \E c \in Calls :
    /\ calls[c].kind = "certificates" /\ calls[c].pc = "dry"
    /\ Len(calls[c].dry) = 2
    /\ \A i \in 1..2 : calls[c].dry[i].st = "set"

\* C24 as stated (refuted by the code): certificates.create ends after a
\* bounded number of requests whatever the server answers, every loop in it
\* being capped.  Its one loop outside the polls is the start-over after the
\* registration: to be taken once only, the start-over has to find the
\* account and go on to the self-test; it does not register again.
C24_BoundedDriver ==
  [][\A c \in Calls :
       (calls[c].pc = "recurse" /\ calls'[c].pc # "recurse") =>
         /\ calls'[c].pc # "agree"
         /\ Len(Registrations(calls'[c])) <= 1]_vars

\* the positions in the log of the requests with this method and URL
At(k, method, url) ==
  { i \in 1..Len(k.log) : k.log[i].method = method /\ k.log[i].url = url }

\* the positions in the log of the calls of options.setChallenge made after
\* the newOrder request (those of the publish pass)
Published(k) ==
  { i \in 1..Len(k.log) :
      /\ k.log[i].op = "setChallenge"
      /\ \E n \in At(k, "POST", NewOrderUrl) : n < i }

StuckError == "stuck in bad pending/processing state"
StateErrors == {"E_STATE_INVALID", "E_STATE_EMPTY", "E_STATE_UKN"}

\* C23 as stated (refuted by the code): ACME._postChallenge polls the
\* challenge URL at most MAX_POLL times; when it fails and no poll has
\* returned a final or bad status, it fails with the 'stuck in bad
\* pending/processing state' error, after exactly MAX_POLL polls.
C23_PollCeiling ==
  \A c \in Calls :
    LET k == calls[c]
        polls == Cardinality(At(k, "GET", ChallengeUrl))
    IN k.kind = "postChallenge" =>
         /\ polls <= MAX_POLL
         /\ (k.pc = "rejected" /\ k.err \notin StateErrors) =>
              k.err = StuckError /\ polls = MAX_POLL

\* C25 as stated (refuted by the code): the outcome of ACME._postChallenge is
\* that of its last poll: it resolves after a poll that returned valid,
\* having called removeChallenge, and it rejects with E_STATE_INVALID,
\* E_STATE_EMPTY or E_STATE_UKN after a poll that returned such a status
\* (or with the ceiling error); the poll is the last request it sent.
C25_PollOutcome ==
  \A c \in Calls :
    LET k == calls[c]
        sent == Requests(k)
    IN (k.kind = "postChallenge" /\ Settled(k)) =>
         /\ sent # <<>>
         /\ sent[Len(sent)].method = "GET" /\ sent[Len(sent)].url = ChallengeUrl
         /\ k.pc = "resolved" =>
              \E i \in 1..Len(k.log) : k.log[i].op = "removeChallenge"
         /\ k.pc = "rejected" => k.err \in StateErrors \cup {StuckError}

\* the error of pollCert for an order that is not valid after finalize; its
\* message names the requested and the validated domains
FinalizeError == "Did not finalize order"

\* C26 as stated (refuted by the code): ACME._finalizeOrder POSTs the CSR to
\* the finalize URL; it resolves only with a valid order and rejects only
\* for an order status other than valid and processing, with the error that
\* names the requested and validated domains; in either case the finalize
\* POST has been sent.
C26_FinalizeOutcome ==
  \A c \in Calls :
    LET k == calls[c] IN
      (k.kind = "finalizeOrder" /\ Settled(k)) =>
        /\ At(k, "POST", FinalizeUrl) # {}
        /\ k.pc = "rejected" => k.err = FinalizeError

====
